---- MODULE Spec2Model ----
(***************************************************************************)
(* Model of octomap's SemanticOcTree (SemanticOcTree.h): per-voxel color   *)
(* blending, per-voxel semantic-label fusion and the bottom-up             *)
(* updateInnerOccupancy pass.                                              *)
(*                                                                         *)
(* float values are modelled as exact rationals <<n, d>> in lowest terms   *)
(* (d > 0), with the two IEEE specials the code can produce: NaN = <<0,0>> *)
(* and +Inf = <<1,0>>.  Rounding of single-precision arithmetic is not     *)
(* modelled.  uint8_t channels are integers modulo 256, the observation    *)
(* count is an unsigned int that stays far below its wrap at 2^32.         *)
(***************************************************************************)
EXTENDS Integers, Sequences, FiniteSets, TLC

\* ------------------------------------------------------------------ bounds
\* number of operations applied to the tree in one behaviour
MaxSteps == 3
\* depth limit of the tree container (16 in octomap), scaled to the model's tree
tree_depth == 2

\* ------------------------------------------------------------------ float
NaN == <<0, 0>>
Inf == <<1, 0>>
Zero == <<0, 1>>
One == <<1, 1>>

RECURSIVE GCD(_, _)
GCD(a, b) == IF b = 0 THEN a ELSE GCD(b, a % b)

\* the rational n/d (n >= 0, d > 0) in lowest terms
Rat(n, d) == LET g == GCD(n, d) IN <<n \div g, d \div g>>

IsNaN(a) == a = NaN
IsInf(a) == a = Inf

\* float + float
FAdd(a, b) ==
  IF IsNaN(a) \/ IsNaN(b) THEN NaN
  ELSE IF IsInf(a) \/ IsInf(b) THEN Inf
  ELSE Rat(a[1] * b[2] + b[1] * a[2], a[2] * b[2])

\* float * unsigned int
FMulInt(a, k) ==
  IF IsNaN(a) THEN NaN
  ELSE IF IsInf(a) THEN (IF k = 0 THEN NaN ELSE Inf)
  ELSE Rat(a[1] * k, a[2])

\* float / float (IEEE: 0/0 is NaN, x/0 is +Inf for x > 0)
FDiv(a, b) ==
  IF IsNaN(a) \/ IsNaN(b) THEN NaN
  ELSE IF IsInf(b) THEN (IF IsInf(a) THEN NaN ELSE Zero)
  ELSE IF IsInf(a) THEN Inf
  ELSE IF b[1] = 0 THEN (IF a[1] = 0 THEN NaN ELSE Inf)
  ELSE Rat(a[1] * b[2], a[2] * b[1])

\* float / int
FDivInt(a, k) == FDiv(a, <<k, 1>>)

\* a < b on floats; every comparison with NaN is false
FLess(a, b) ==
  IF IsNaN(a) \/ IsNaN(b) THEN FALSE
  ELSE IF IsInf(a) THEN FALSE
  ELSE IF IsInf(b) THEN TRUE
  ELSE a[1] * b[2] < b[1] * a[2]

\* sum += v[i] for i = 1..Len(v), starting from float 0
RECURSIVE FSumFrom(_, _, _)
FSumFrom(v, i, acc) ==
  IF i > Len(v) THEN acc ELSE FSumFrom(v, i + 1, FAdd(acc, v[i]))

FSum(v) == FSumFrom(v, 1, Zero)

\* std::vector<float>::resize(n): value-initialised (0.0f) new entries
Resize(v, n) ==
  [i \in 1..n |-> IF i <= Len(v) THEN v[i] ELSE Zero]

\* ------------------------------------------------------------------ tree
\* The hierarchy is owned by the tree container; its shape is fixed here:
\* node 1 is the root, 2 and 3 are its children, 4 is the child of 2.
Nodes == 1..4
root == 1
\* the null node pointer
NULL == 0
children == <<(<<2, 3>>), (<<4>>), (<<>>), (<<>>)>>

nodeHasChildren(node) == Len(children[node]) > 0

\* ------------------------------------------------------------------ color
White == <<255, 255, 255>>
isColorSet(c) == (c[1] # 255) \/ (c[2] # 255) \/ (c[3] # 255)

\* ------------------------------------------------------------------ state
\* color, semantics: the two fields of every node; label2color: the tree's map.
\* Bookkeeping of the run: steps counts the operations applied, lastOp names
\* the last one, passes counts the aggregation passes run back to back since
\* the last other operation, prevCount holds every node's observation count
\* before the last operation, lastArg the node and the observation the last
\* operation was called with.
VARIABLES color, semantics, label2color, steps, lastOp, passes, prevCount, lastArg

vars == <<color, semantics, label2color, steps, lastOp, passes, prevCount, lastArg>>

\* ------------------------------------------------------------------ node
\* Semantics(): label(), count(0)
SemanticsDefault == [label |-> <<>>, count |-> 0]

\* SemanticsOf with a defect: the constructor leaves count at 0
SemanticsOfNoCount(mlabel) == [label |-> mlabel, count |-> 0]

\* Semantics(std::vector<float> _label): label(_label), count(1)
SemanticsOf(mlabel) == [label |-> mlabel, count |-> 1]

\* SemanticOcTreeNode(int num_class): default color and Semantics(), then
\* semantics.label.resize(num_class); num_class = 0 is SemanticOcTreeNode()
NodeSemantics(num_class) == [label |-> Resize(<<>>, num_class), count |-> 0]

isSemanticsSet(s) == Len(s.label) > 0

\* (uint8_t) of an int
U8(x) == x % 256

\* getAverageChildColor(): the loop over the child slots of `node`, from
\* slot i on, with the running sums acc = <<mr, mg, mb, c>>
RECURSIVE ColorSums(_, _, _, _)
ColorSums(col, kids, i, acc) ==
  IF i > Len(kids) THEN acc
  ELSE LET ch == col[kids[i]] IN
       ColorSums(col, kids, i + 1,
                 IF isColorSet(ch)
                 THEN <<acc[1] + ch[1], acc[2] + ch[2], acc[3] + ch[3], acc[4] + 1>>
                 ELSE acc)

getAverageChildColor(col, node) ==
  LET acc == ColorSums(col, children[node], 1, <<0, 0, 0, 0>>)
      c == acc[4]
  IN IF c > 0
     THEN <<U8(acc[1] \div c), U8(acc[2] \div c), U8(acc[3] \div c)>>
     ELSE White

\* std::max_element over v[1..Len(v)]: the first element no later one
\* compares greater than (operator<); returns its position (1-based)
RECURSIVE MaxElementFrom(_, _, _)
MaxElementFrom(v, i, largest) ==
  IF i > Len(v) THEN largest
  ELSE MaxElementFrom(v, i + 1, IF FLess(v[largest], v[i]) THEN i ELSE largest)

\* max_element with a defect: a later element wins unless it compares less
RECURSIVE MaxElementLastFrom(_, _, _)
MaxElementLastFrom(v, i, largest) ==
  IF i > Len(v) THEN largest
  ELSE MaxElementLastFrom(v, i + 1, IF FLess(v[i], v[largest]) THEN largest ELSE i)

max_element_last(v) == MaxElementLastFrom(v, 2, 1)

max_element(v) == MaxElementFrom(v, 2, 1)

\* label2color.size()
MapSize(map) == Cardinality(DOMAIN map)

\* getAverageChildColor(label2color)
getAverageChildColorMap(col, sem, node, map) ==
  IF MapSize(map) = 0
  THEN getAverageChildColor(col, node)
  ELSE LET distribution == sem[node].label IN
       IF Len(distribution) = 0 THEN White
       ELSE LET max_prob_class == max_element(distribution) - 1
            IN map[max_prob_class]

\* mlabel[l] += clabel[l] for every l, after growing mlabel to clabel's size
AccumulateLabel(mlabel, clabel) ==
  LET grown == IF Len(mlabel) < Len(clabel) THEN Resize(mlabel, Len(clabel)) ELSE mlabel
  IN [l \in 1..Len(grown) |->
        IF l <= Len(clabel) THEN FAdd(grown[l], clabel[l]) ELSE grown[l]]

\* getAverageChildSemantics(): the loop over the child slots, acc = <<mlabel, c>>
RECURSIVE LabelSums(_, _, _, _)
LabelSums(sem, kids, i, acc) ==
  IF i > Len(kids) THEN acc
  ELSE LET ch == sem[kids[i]] IN
       LabelSums(sem, kids, i + 1,
                 IF isSemanticsSet(ch)
                 THEN <<AccumulateLabel(acc[1], ch.label), acc[2] + 1>>
                 ELSE acc)

getAverageChildSemantics(sem, node) ==
  LET acc == LabelSums(sem, children[node], 1, <<(<<>>), 0>>)
      c == acc[2]
  IN IF c > 0
     THEN LET avg == [l \in 1..Len(acc[1]) |-> FDivInt(acc[1][l], c)]
              sums == FSum(avg)
          IN SemanticsOf([l \in 1..Len(avg) |-> FDiv(avg[l], sums)])
     ELSE SemanticsDefault

\* normalizeSemantics()
normalizeSemantics(s) ==
  LET sum == FSum(s.label) IN
  IF FLess(Zero, sum)
  THEN [s EXCEPT !.label = [i \in 1..Len(s.label) |-> FDiv(s.label[i], sum)]]
  ELSE [s EXCEPT !.label = [i \in 1..Len(s.label) |-> FDivInt(One, Len(s.label))]]

\* ------------------------------------------------------------------ tree operations
\* averageNodeColor with a defect: the sum of two channels is kept in 8 bits
averageNodeColorNarrowSum(prev_color, obs) ==
  IF isColorSet(prev_color)
  THEN <<U8(prev_color[1] + obs[1]) \div 2,
         U8(prev_color[2] + obs[2]) \div 2,
         U8(prev_color[3] + obs[3]) \div 2>>
  ELSE obs

\* averageNodeColor with a defect: the mean is rounded to nearest, not truncated
averageNodeColorRounded(prev_color, obs) ==
  IF isColorSet(prev_color)
  THEN <<U8((prev_color[1] + obs[1] + 1) \div 2),
         U8((prev_color[2] + obs[2] + 1) \div 2),
         U8((prev_color[3] + obs[3] + 1) \div 2)>>
  ELSE obs

\* averageNodeColor(n, r, g, b) on a non-null n: the node's new color
averageNodeColor(prev_color, obs) ==
  IF isColorSet(prev_color)
  THEN <<U8((prev_color[1] + obs[1]) \div 2),
         U8((prev_color[2] + obs[2]) \div 2),
         U8((prev_color[3] + obs[3]) \div 2)>>
  ELSE obs

\* FuseLabel with a defect: the previous estimate is weighted by count + 1
FuseLabelOverweight(prev, count, label) ==
  LET grown == IF Len(prev) < Len(label) THEN Resize(prev, Len(label)) ELSE prev
  IN [i \in 1..Len(grown) |->
        IF i <= Len(label)
        THEN FDivInt(FAdd(FMulInt(grown[i], count + 1), label[i]), count + 1)
        ELSE grown[i]]

\* the running update of averageNodeSemantics on the copy prev_semantics
FuseLabel(prev, count, label) ==
  LET grown == IF Len(prev) < Len(label) THEN Resize(prev, Len(label)) ELSE prev
  IN [i \in 1..Len(grown) |->
        IF i <= Len(label)
        THEN FDivInt(FAdd(FMulInt(grown[i], count), label[i]), count + 1)
        ELSE grown[i]]

\* addSemanticsCount(): unsigned int ++ (the wrap at 2^32 is beyond MaxSteps
\* fusions and beyond TLC's 32-bit integers, so it is not taken here)
IncCount(count) == count + 1

\* averageNodeSemantics(n, label) on a non-null n: the node's new semantics
averageNodeSemantics(sem, label) ==
  IF isSemanticsSet(sem)
  THEN LET prev_semantics == [sem EXCEPT !.label = FuseLabel(sem.label, sem.count, label)]
           normalized == normalizeSemantics(prev_semantics)
       IN [normalized EXCEPT !.count = IncCount(normalized.count)]
  ELSE LET normalized == normalizeSemantics([sem EXCEPT !.label = label])
       IN [normalized EXCEPT !.count = 1]

\* updateInnerOccupancyRecurs with a defect: the node is recomputed from its
\* children before the children are visited (pre-order)
RECURSIVE updateInnerOccupancyPreOrder(_, _, _, _)
RECURSIVE RecurseChildrenPreOrder(_, _, _, _, _)
RecurseChildrenPreOrder(st, map, kids, i, depth) ==
  IF i > Len(kids) THEN st
  ELSE RecurseChildrenPreOrder(updateInnerOccupancyPreOrder(st, map, kids[i], depth + 1),
                               map, kids, i + 1, depth)

updateInnerOccupancyPreOrder(st, map, node, depth) ==
  IF nodeHasChildren(node)
  THEN LET sem2 == [st.semantics EXCEPT
                      ![node] = getAverageChildSemantics(st.semantics, node)]
           col2 == [st.color EXCEPT
                      ![node] = IF MapSize(map) # 0
                                THEN getAverageChildColorMap(st.color, sem2, node, map)
                                ELSE getAverageChildColor(st.color, node)]
           st1 == [color |-> col2, semantics |-> sem2]
       IN IF depth < tree_depth
          THEN RecurseChildrenPreOrder(st1, map, children[node], 1, depth)
          ELSE st1
  ELSE [st EXCEPT !.color[node] =
          getAverageChildColorMap(st.color, st.semantics, node, map)]

\* updateInnerOccupancyRecurs(node, depth) on the tree st = [color, semantics]
\* (the occupancy value, updated by the base node, is not part of the model)
RECURSIVE updateInnerOccupancyRecurs(_, _, _, _)
RECURSIVE RecurseChildren(_, _, _, _, _)
RecurseChildren(st, map, kids, i, depth) ==
  IF i > Len(kids) THEN st
  ELSE RecurseChildren(updateInnerOccupancyRecurs(st, map, kids[i], depth + 1),
                       map, kids, i + 1, depth)

updateInnerOccupancyRecurs(st, map, node, depth) ==
  IF nodeHasChildren(node)
  THEN LET st1 == IF depth < tree_depth
                  THEN RecurseChildren(st, map, children[node], 1, depth)
                  ELSE st
           sem2 == [st1.semantics EXCEPT
                      ![node] = getAverageChildSemantics(st1.semantics, node)]
           col2 == [st1.color EXCEPT
                      ![node] = IF MapSize(map) # 0
                                THEN getAverageChildColorMap(st1.color, sem2, node, map)
                                ELSE getAverageChildColor(st1.color, node)]
       IN [color |-> col2, semantics |-> sem2]
  ELSE [st EXCEPT !.color[node] =
          getAverageChildColorMap(st.color, st.semantics, node, map)]

\* updateInnerOccupancy()
updateInnerOccupancy(st, map) == updateInnerOccupancyRecurs(st, map, root, 0)

\* ------------------------------------------------------------------ inputs
\* observed colors: pure white, the two colors of the blend examples, and a
\* color that differs from white in one channel only
Palette == {White, <<10, 20, 30>>, <<20, 20, 20>>, <<255, 255, 254>>}
\* the observed colors used together with semantic fusion
FewColors == {<<10, 20, 30>>, <<255, 255, 254>>}
\* observed label vectors (non-negative entries), of lengths 0, 1 and 2
ObsLabels == {<<>>, <<One>>, <<Zero, Zero>>, <<Zero, One>>, <<One, One>>}
\* arguments of the node constructor: 0 classes (as the default constructor) or 2
CtorArgs == {0, 2}
\* the nodes of the hierarchy without children
LeafNodes == {n \in Nodes : ~nodeHasChildren(n)}
\* label-color maps: none, or one color per class index 0 and 1
EmptyMap == <<>>
FullMap == [k \in 0..1 |-> IF k = 0 THEN <<200, 0, 0>> ELSE <<0, 200, 0>>]
Maps == {EmptyMap, FullMap}

\* ------------------------------------------------------------------ actions
\* bookkeeping of one applied operation
NoArg == [n |-> NULL, obs |-> <<>>]

Done(op, node, arg) ==
  /\ steps' = steps + 1
  /\ lastOp' = op
  /\ lastArg' = [n |-> node, obs |-> arg]
  /\ passes' = IF op = "updateInnerOccupancy" THEN passes + 1 ELSE 0
  /\ prevCount' = [n \in Nodes |-> semantics[n].count]

\* The container creates inner nodes with the default constructor; a leaf is
\* built by either constructor.  No color has been integrated yet.
Init ==
  /\ color = [n \in Nodes |-> White]
  /\ \E nc \in [LeafNodes -> CtorArgs] :
       semantics = [n \in Nodes |->
                      IF n \in LeafNodes THEN NodeSemantics(nc[n]) ELSE NodeSemantics(0)]
  /\ label2color \in Maps
  /\ steps = 0
  /\ lastOp = "init"
  /\ passes = 0
  /\ lastArg = NoArg
  /\ prevCount = [n \in Nodes |-> 0]

AverageNodeColor(n, obs) ==
  /\ steps < MaxSteps
  /\ color' = IF n # NULL
              THEN [color EXCEPT ![n] = averageNodeColor(color[n], obs)]
              ELSE color
  /\ Done("averageNodeColor", n, obs)
  /\ UNCHANGED <<semantics, label2color>>

AverageNodeSemantics(n, label) ==
  /\ steps < MaxSteps
  /\ semantics' = IF n # NULL
                  THEN [semantics EXCEPT ![n] = averageNodeSemantics(semantics[n], label)]
                  ELSE semantics
  /\ Done("averageNodeSemantics", n, label)
  /\ UNCHANGED <<color, label2color>>

UpdateInnerOccupancy ==
  /\ steps < MaxSteps
  /\ LET st == updateInnerOccupancy([color |-> color, semantics |-> semantics],
                                    label2color)
     IN /\ color' = st.color
        /\ semantics' = st.semantics
  /\ Done("updateInnerOccupancy", NoArg.n, NoArg.obs)
  /\ UNCHANGED label2color

AddColorMap(map) ==
  /\ steps < MaxSteps
  /\ label2color' = map
  /\ Done("addColorMap", NoArg.n, NoArg.obs)
  /\ UNCHANGED <<color, semantics>>

\* the public node method updateColorChildren(), called on node n directly
UpdateColorChildren(n) ==
  /\ steps < MaxSteps
  /\ color' = [color EXCEPT ![n] = getAverageChildColor(color, n)]
  /\ Done("updateColorChildren", n, NoArg.obs)
  /\ UNCHANGED <<semantics, label2color>>

Next ==
  \/ \E n \in Nodes \cup {NULL}, obs \in FewColors : AverageNodeColor(n, obs)
  \/ \E n \in Nodes \cup {NULL}, label \in ObsLabels : AverageNodeSemantics(n, label)
  \/ UpdateInnerOccupancy
  \/ \E map \in Maps : AddColorMap(map)

Spec == Init /\ [][Next]_vars

\* Color only: a tree without label-color map and without semantics, under
\* color blending, node-level color averaging and the aggregation pass.
InitColor ==
  /\ color = [n \in Nodes |-> White]
  /\ semantics = [n \in Nodes |-> NodeSemantics(0)]
  /\ label2color = EmptyMap
  /\ steps = 0
  /\ lastOp = "init"
  /\ passes = 0
  /\ lastArg = NoArg
  /\ prevCount = [n \in Nodes |-> 0]

NextColor ==
  \/ \E n \in Nodes \cup {NULL}, obs \in Palette : AverageNodeColor(n, obs)
  \/ \E n \in Nodes : UpdateColorChildren(n)
  \/ UpdateInnerOccupancy

SpecColor == InitColor /\ [][NextColor]_vars

\* ------------------------------------------------------------------ claims
\* Vocabulary of the claims, stated on its own and not through the operators
\* above.
Leaves == {n \in Nodes : Len(children[n]) = 0}
InnerNodes == Nodes \ Leaves
ChildSet(n) == {children[n][i] : i \in 1..Len(children[n])}
AfterPass == lastOp = "updateInnerOccupancy"
NoMap == DOMAIN label2color = {}

\* float * float
FMul(a, b) ==
  IF IsNaN(a) \/ IsNaN(b) THEN NaN
  ELSE IF IsInf(a) \/ IsInf(b)
       THEN (IF a = Zero \/ b = Zero THEN NaN ELSE Inf)
  ELSE Rat(a[1] * b[1], a[2] * b[2])

\* sum of f over the finite set S
RECURSIVE SumOver(_, _)
SumOver(S, f) ==
  IF S = {} THEN Zero
  ELSE LET x == CHOOSE y \in S : TRUE IN FAdd(f[x], SumOver(S \ {x}, f))

RECURSIVE IntSumOver(_, _)
IntSumOver(S, f) ==
  IF S = {} THEN 0
  ELSE LET x == CHOOSE y \in S : TRUE IN f[x] + IntSumOver(S \ {x}, f)

MaxOf(S) == CHOOSE x \in S : \A y \in S : y <= x

\* entry l of v, zero beyond its length
Padded(v, l) == IF l <= Len(v) THEN v[l] ELSE Zero

\* normalize of section 4.2: r is v divided by its sum when the sum is
\* positive, and uniform otherwise
IsNormalized(r, v) ==
  /\ Len(r) = Len(v)
  /\ LET sum == SumOver(1..Len(v), v) IN
     \A i \in 1..Len(v) :
       IF FLess(Zero, sum) THEN FMul(r[i], sum) = v[i]
       ELSE r[i] = Rat(1, Len(v))

Uniform(len) == [i \in 1..len |-> Rat(1, len)]

\* children of n whose semantics / color are set
SemKids(sem, n) == {k \in ChildSet(n) : sem[k].label # <<>>}
ColKids(col, n) == {k \in ChildSet(n) : col[k] # White}

\* element-wise mean of the label vectors of the children of n with semantics
\* set, shorter vectors zero-padded
MeanLabel(sem, n) ==
  LET K == SemKids(sem, n)
      len == MaxOf({Len(sem[k].label) : k \in K})
  IN [l \in 1..len |->
        FDivInt(SumOver(K, [k \in K |-> Padded(sem[k].label, l)]), Cardinality(K))]

\* truncated per-channel mean of the set child colors, white if there are none
MeanColor(col, n) ==
  LET K == ColKids(col, n) IN
  IF K = {} THEN White
  ELSE [ch \in 1..3 |-> IntSumOver(K, [k \in K |-> col[k][ch]]) \div Cardinality(K)]

\* C1: after updateInnerOccupancy every inner node is consistent with the
\* values its children hold: its semantics are the normalized element-wise
\* mean of the label vectors of its children with semantics set (empty when
\* there is none), and without label-color map its color is the truncated
\* per-channel mean of the set child colors (white when there is none).
C1_InnerConsistent ==
  AfterPass =>
    \A n \in InnerNodes :
      /\ IF SemKids(semantics, n) = {}
         THEN semantics[n].label = <<>>
         ELSE IsNormalized(semantics[n].label, MeanLabel(semantics, n))
      /\ NoMap => color[n] = MeanColor(color, n)

\* C8: when at least one child has semantics set and the averaged accumulator
\* sums to zero (every contributing child is all zero), the aggregated
\* distribution of the parent is uniform, 1/length per entry.
C8_ZeroSumGivesUniform ==
  AfterPass =>
    \A n \in InnerNodes :
      LET K == SemKids(semantics, n) IN
      (/\ K # {}
       /\ \A k \in K : \A l \in 1..Len(semantics[k].label) : semantics[k].label[l] = Zero)
      => semantics[n].label = Uniform(MaxOf({Len(semantics[k].label) : k \in K}))

\* C2: without label-color map, the aggregation pass leaves the color of every
\* leaf as it was before the pass.
C2_LeafColorKept ==
  [][(lastOp' = "updateInnerOccupancy" /\ NoMap)
       => \A n \in Leaves : color'[n] = color[n]]_vars

\* C7: with a label-color map, the aggregation pass leaves the color of a leaf
\* whose semantics are unset as it was.
C7_UnsetLeafColorKept ==
  [][(lastOp' = "updateInnerOccupancy" /\ ~NoMap)
       => \A n \in Leaves : semantics[n].label = <<>> => color'[n] = color[n]]_vars

\* k (0-based) is the lowest index holding the maximum entry of v: no entry
\* compares greater than v[k], every earlier entry compares less
IsLowestMax(v, k) ==
  /\ \A j \in 1..Len(v) : ~FLess(v[k + 1], v[j])
  /\ \A j \in 1..k : FLess(v[j], v[k + 1])

\* C3: with a label-color map covering every class index, after the
\* aggregation pass every inner node whose aggregated semantics are non-empty
\* has the color map[k], k the lowest index holding the maximum entry of the
\* semantics the node got in this pass, whatever the colors of its children.
C3_MapColorIsArgmax ==
  (AfterPass /\ ~NoMap) =>
    \A n \in InnerNodes :
      semantics[n].label # <<>> =>
        \E k \in 0..(Len(semantics[n].label) - 1) :
          /\ IsLowestMax(semantics[n].label, k)
          /\ k \in DOMAIN label2color
          /\ color[n] = label2color[k]

\* C3 happens: after a pass with a map the root took the color of class 1
\* while a child of it carries the color of class 0.
C3_Witness ==
  /\ AfterPass
  /\ label2color = FullMap
  /\ color[root] = FullMap[1]
  /\ \E k \in ChildSet(root) : color[k] = FullMap[0]

\* the running update as the claim words it: P zero-padded to the length of
\* L, indices below |L| updated with weight n, the others kept
ClaimFused(P, n, L) ==
  [i \in 1..MaxOf({Len(P), Len(L)}) |->
     IF i <= Len(L)
     THEN FDivInt(FAdd(FMulInt(Padded(P, i), n), L[i]), n + 1)
     ELSE P[i]]

\* C4: averageNodeSemantics on a non-null voxel with observation L: from unset
\* semantics the result is normalize(L) with count 1; from label P and count n
\* it is the normalized running update of P by L with count n + 1; a non-empty
\* result sums to 1.
C4_FuseResult ==
  [][\A n \in Nodes, L \in ObsLabels :
       (/\ lastOp' = "averageNodeSemantics"
        /\ lastArg' = [n |-> n, obs |-> L]) =>
         /\ IF semantics[n].label = <<>>
            THEN /\ IsNormalized(semantics'[n].label, L)
                 /\ semantics'[n].count = 1
            ELSE /\ IsNormalized(semantics'[n].label,
                                 ClaimFused(semantics[n].label, semantics[n].count, L))
                 /\ semantics'[n].count = semantics[n].count + 1
         /\ semantics'[n].label # <<>> =>
              SumOver(1..Len(semantics'[n].label), semantics'[n].label) = One]_vars

\* C4 happens: a fusion took a voxel from count 1 to count 2 and left it a
\* non-uniform distribution over two classes.
C4_Witness ==
  /\ lastOp = "averageNodeSemantics"
  /\ \E n \in Nodes :
       /\ prevCount[n] = 1
       /\ semantics[n].count = 2
       /\ Len(semantics[n].label) = 2
       /\ semantics[n].label[1] # semantics[n].label[2]

\* C5 as claimed: from one state to the next the observation count of a voxel
\* never decreases, except in a step that sets it to exactly 1.
C5_CountNeverDrops ==
  [][\A n \in Nodes :
       \/ semantics'[n].count >= semantics[n].count
       \/ semantics'[n].count = 1]_vars

\* C5 as amended: the count of a voxel never decreases, except in a step that
\* sets it to exactly 1 or in an aggregation pass that finds no child of an
\* inner voxel with semantics set, which leaves that voxel unset with count 0.
C5_CountDropsOnlyByReset ==
  [][\A n \in Nodes :
       \/ semantics'[n].count >= semantics[n].count
       \/ semantics'[n].count = 1
       \/ /\ lastOp' = "updateInnerOccupancy"
          /\ n \in InnerNodes
          /\ SemKids(semantics', n) = {}
          /\ semantics'[n].label = <<>>
          /\ semantics'[n].count = 0]_vars

\* C5 happens: a pass cleared an inner voxel whose count was positive.
C5_Witness ==
  /\ AfterPass
  /\ \E n \in InnerNodes : prevCount[n] > 0 /\ semantics[n].count = 0

\* C6: averageNodeColor on a non-null voxel stores the observed color verbatim
\* when the stored color is white, and otherwise the per-channel
\* floor((stored + observed) / 2).
C6_BlendResult ==
  [][\A n \in Nodes, obs \in Palette :
       (/\ lastOp' = "averageNodeColor"
        /\ lastArg' = [n |-> n, obs |-> obs]) =>
         color'[n] = IF color[n] = White
                     THEN obs
                     ELSE [ch \in 1..3 |-> (color[n][ch] + obs[ch]) \div 2]]_vars

\* C6 happens: the blend of (10,20,30) and (20,20,20) on a leaf.
C6_Witness ==
  /\ lastOp = "averageNodeColor"
  /\ \E n \in Leaves : color[n] = <<15, 20, 25>>

\* C9 as claimed: there is a tree, without label-color map, on which a second
\* pass run right after a first one changes the color of some node.  The trees
\* tried are all colorings by the palette and the colors now in the tree, with
\* the semantics now in the tree or none.
C9_SecondPassChangesColor ==
  \E col \in [Nodes -> Palette \cup {color[n] : n \in Nodes}],
     sem \in {semantics, [n \in Nodes |-> NodeSemantics(0)]} :
    LET first == updateInnerOccupancy([color |-> col, semantics |-> sem], EmptyMap)
        second == updateInnerOccupancy(first, EmptyMap)
    IN second.color # first.color

\* C9 as amended: a pass run right after another pass, with nothing in
\* between, changes the color of no node.
C9_SecondPassKeepsColor ==
  [][passes' >= 2 => color' = color]_vars

\* C9 happens: two passes back to back on a tree without label-color map.
C9_Witness ==
  /\ passes = 2
  /\ NoMap

\* C10: a set color stays set under averageNodeColor, whatever is observed; and
\* getAverageChildColor() is a set color exactly when some child has one.
C10_SetnessKept ==
  [][/\ \A n \in Nodes :
          (/\ lastOp' = "averageNodeColor"
           /\ lastArg'.n = n
           /\ color[n] # White) => color'[n] # White
     /\ \A n \in Nodes :
          (lastOp' = "updateColorChildren" /\ lastArg'.n = n) =>
            (color'[n] # White <=> \E k \in ChildSet(n) : color[k] # White)]_vars

\* C10 happens: an inner node averaged the color of a child that had blended
\* (10,20,30) with white.
C10_Witness ==
  /\ lastOp = "updateColorChildren"
  /\ \E n \in InnerNodes : color[n] = <<132, 137, 142>>

====
